---- MODULE Spec2Model ----
(***************************************************************************)
(* A model of the translation service of buildr:                           *)
(*   src/src/lib/translate.ts  (TranslateService)                          *)
(*   src/unnamed/part_000      (the util module: createDir, diffObjects,   *)
(*                              dirFiles, writeFile)                       *)
(*   src/src/log.ts            (Logger)                                    *)
(*                                                                         *)
(* Strings are TLA+ strings; path arithmetic (path.dirname, path.basename, *)
(* String.replace, +) is computed character by character.  JSON values are *)
(* tagged records; an object keeps its entries in insertion order, as a    *)
(* JavaScript object does.                                                 *)
(***************************************************************************)
EXTENDS Integers, Sequences, FiniteSets, TLC

(***************************************************************************)
(* Strings and paths                                                       *)
(***************************************************************************)
Ch(s, i) == SubSeq(s, i, i)

Max(S) == CHOOSE x \in S : \A y \in S : y <= x

Min(S) == CHOOSE x \in S : \A y \in S : x <= y

StartsWith(s, pre) == Len(s) >= Len(pre) /\ SubSeq(s, 1, Len(pre)) = pre

\* Index of the last character of s that is not a slash (0 when there is none).
LastNonSlash(s) ==
  LET I == {i \in 1..Len(s) : Ch(s, i) # "/"}
  IN  IF I = {} THEN 0 ELSE Max(I)

\* path.dirname of node's posix path module.
PathDirname(p) ==
  LET hasRoot == Len(p) > 0 /\ Ch(p, 1) = "/"
      T == LastNonSlash(p)
      E == {i \in 2..T : Ch(p, i) = "/"}
  IN  IF Len(p) = 0 THEN "."
      ELSE IF E = {} THEN (IF hasRoot THEN "/" ELSE ".")
      ELSE IF hasRoot /\ Max(E) = 2 THEN "//"
      ELSE SubSeq(p, 1, Max(E) - 1)

\* path.basename of node's posix path module (one argument).
PathBasename(p) ==
  LET T == LastNonSlash(p)
      S == {i \in 1..T : Ch(p, i) = "/"}
  IN  IF T = 0 THEN ""
      ELSE SubSeq(p, (IF S = {} THEN 0 ELSE Max(S)) + 1, T)

\* String.prototype.replace(pat, '') with a string pattern: the first
\* occurrence of pat is removed.
StrRemoveFirst(s, pat) ==
  LET n == Len(pat)
      I == {i \in 1..(Len(s) - n + 1) : SubSeq(s, i, i + n - 1) = pat}
  IN  IF I = {} THEN s
      ELSE SubSeq(s, 1, Min(I) - 1) \o SubSeq(s, Min(I) + n, Len(s))

\* The characters of file names in the order of their codes.
AsciiOrder == "-./0123456789ABCDEFGHIJKLMNOPQRSTUVWXYZ_abcdefghijklmnopqrstuvwxyz"

CharCode(c) == CHOOSE i \in 1..Len(AsciiOrder) : Ch(AsciiOrder, i) = c

\* strcmp(a, b) <= 0
StrLeq(a, b) ==
  \E n \in 0..Min({Len(a), Len(b)}) :
    /\ SubSeq(a, 1, n) = SubSeq(b, 1, n)
    /\ \/ n = Len(a)
       \/ n < Len(b) /\ CharCode(Ch(a, n + 1)) < CharCode(Ch(b, n + 1))

\* The names of a directory as fs.readdir gives them: sorted by strcmp.
RECURSIVE SetToSeq(_)
SetToSeq(S) ==
  IF S = {} THEN <<>>
  ELSE LET x == CHOOSE y \in S : \A z \in S : StrLeq(y, z)
       IN  <<x>> \o SetToSeq(S \ {x})

Range(q) == {q[i] : i \in 1..Len(q)}

(***************************************************************************)
(* JSON values                                                             *)
(***************************************************************************)
Undefined == [t |-> "undefined"]

Null == [t |-> "null"]

Str(s) == [t |-> "string", s |-> s]

Bool(b) == [t |-> "boolean", b |-> b]

\* An object: a sequence of entries [k, v] with pairwise different keys.
Obj(e) == [t |-> "object", e |-> e]

Ent(k, v) == [k |-> k, v |-> v]

EmptyObj == Obj(<<>>)

\* Object.keys(v): the own enumerable keys, in insertion order.  A boolean
\* has none; a string has its indices (never asked for here).
ObjectKeys(v) == IF v.t = "object" THEN [i \in 1..Len(v.e) |-> v.e[i].k] ELSE <<>>

HasKey(v, k) == v.t = "object" /\ \E i \in 1..Len(v.e) : v.e[i].k = k

\* v[k]
Get(v, k) ==
  IF HasKey(v, k) THEN v.e[CHOOSE i \in 1..Len(v.e) : v.e[i].k = k].v ELSE Undefined

\* result[k] = x on an object: an existing key keeps its place.
Put(v, k, x) ==
  IF HasKey(v, k)
  THEN Obj([i \in 1..Len(v.e) |-> IF v.e[i].k = k THEN Ent(k, x) ELSE v.e[i]])
  ELSE Obj(Append(v.e, Ent(k, x)))

\* { ...a, ...b }
RECURSIVE PutAll(_, _, _)
PutAll(acc, b, i) ==
  IF i > Len(b.e) THEN acc ELSE PutAll(Put(acc, b.e[i].k, b.e[i].v), b, i + 1)

Spread(a, b) == PutAll(PutAll(EmptyObj, a, 1), b, 1)

\* !v
Falsy(v) ==
  \/ v.t \in {"undefined", "null"}
  \/ v.t = "string" /\ v.s = ""
  \/ v.t = "boolean" /\ ~v.b

\* lodash isObject
IsObject(v) == v.t = "object"

\* lodash isEqual: structural equality, the order of the keys of an object
\* does not matter.
RECURSIVE IsEqual(_, _)
IsEqual(a, b) ==
  IF a.t # b.t THEN FALSE
  ELSE IF a.t = "object"
       THEN /\ Len(a.e) = Len(b.e)
            /\ \A i \in 1..Len(a.e) :
                 HasKey(b, a.e[i].k) /\ IsEqual(a.e[i].v, Get(b, a.e[i].k))
       ELSE a = b

(***************************************************************************)
(* util: diffObjects                                                       *)
(***************************************************************************)
\* The iteratee without its equality test.
Differs_Always(value, bv) == TRUE

\* Line 31: !isEqual(value, base[key])
Differs(value, bv) == ~IsEqual(value, bv)

RECURSIVE diffObjects(_, _), DiffTransform(_, _, _, _)
\* The iteratee of lodash transform, applied to the entries of obj in order.
DiffTransform(base, obj, i, result) ==
  IF i > Len(obj.e) THEN result
  ELSE LET key == obj.e[i].k
           value == obj.e[i].v
           bv == Get(base, key)
           next == IF Differs(value, bv)
                   THEN IF Falsy(bv)
                        THEN Put(result, key,
                                 IF IsObject(value) /\ IsObject(bv)
                                 THEN diffObjects(value, bv)
                                 ELSE value)
                        ELSE result
                   ELSE result
       IN  DiffTransform(base, obj, i + 1, next)

\* The diff with its arguments exchanged: the keys of base are walked.
diffObjects_FromBase(base, obj) == DiffTransform(obj, base, 1, EmptyObj)

diffObjects(base, obj) == DiffTransform(base, obj, 1, EmptyObj)

(***************************************************************************)
(* TranslateService.getTranslations                                        *)
(***************************************************************************)
MISSING_TRANSLATION == "***MISSING TRANSLATION***"

\* What an await of getTranslations yields: a result object, null, or a
\* thrown error; calls lists the (text, language) pairs given to
\* googleTranslate.translate on the way.
GTValue_AlwaysTranslated(results, translated, calls) ==
  [kind |-> "value", results |-> results, translated |-> TRUE, calls |-> calls]

GTValue(results, translated, calls) ==
  [kind |-> "value", results |-> results, translated |-> translated, calls |-> calls]

GTNull == [kind |-> "null", results |-> EmptyObj, translated |-> FALSE, calls |-> <<>>]

GTThrow(calls) ==
  [kind |-> "throw", results |-> EmptyObj, translated |-> FALSE, calls |-> calls]

\* getTranslations awaits the provider (line 256): it has not returned yet.
GTAwaiting(calls) ==
  [kind |-> "awaiting", results |-> EmptyObj, translated |-> FALSE, calls |-> calls]

\* Line 249: item.length > this.config.maxLength
TooLong(cfg, item) == Len(item.s) > cfg.maxLength

\* reply is the provider's answer to a call: [ok |-> TRUE, text |-> s] when
\* translate resolves with [s], [ok |-> FALSE] when it rejects.
RECURSIVE getTranslations(_, _, _, _), GTLoop(_, _, _, _, _, _)
GTLoop(cfg, obj, lang, reply, i, results) ==
  LET keys == ObjectKeys(obj)
  IN  IF i > Len(keys) THEN GTNull
      ELSE LET key == keys[i]
               item == Get(obj, key)
           IN  IF item.t = "string"
               THEN IF TooLong(cfg, item)
                    THEN GTValue(Put(results, key, Str(MISSING_TRANSLATION)),
                                 cfg.retranslate, <<>>)
                    ELSE IF reply.ok
                         THEN GTValue(Put(results, key, Str(reply.text)), TRUE,
                                      <<[text |-> item.s, lang |-> lang]>>)
                         ELSE GTThrow(<<[text |-> item.s, lang |-> lang]>>)
               ELSE LET val == getTranslations(cfg, item, lang, reply)
                    IN  IF val.kind = "value"
                        THEN GTValue(Put(results, key, Bool(val.translated)),
                                     val.translated, val.calls)
                        ELSE GTThrow(val.calls)

getTranslations(cfg, obj, lang, reply) ==
  IF obj.t \in {"null", "undefined"} THEN GTThrow(<<>>)
  ELSE GTLoop(cfg, obj, lang, reply, 1, EmptyObj)

(***************************************************************************)
(* The file system, the working directory and node's require               *)
(***************************************************************************)
DirNode == [kind |-> "dir", content |-> EmptyObj]

\* The content of a file is kept as the JSON value its text denotes:
\* '{}' is EmptyObj, JSON.stringify(v) is v.
FileNode(v) == [kind |-> "file", content |-> v]

\* A text of n characters that denotes no JSON value.
RawText(n) == [t |-> "raw", n |-> n]

\* The content of a file that fs.writeFile has opened and not written yet.
Truncated == RawText(0)

\* The number of characters of JSON.stringify(v), or of a text.
RECURSIVE JsonLength(_)
JsonLength(v) ==
  CASE v.t = "raw" -> v.n
    [] v.t = "string" -> Len(v.s) + 2
    [] v.t = "boolean" -> IF v.b THEN 4 ELSE 5
    [] v.t = "object" ->
         LET RECURSIVE sum(_)
             sum(i) == IF i > Len(v.e) THEN 0
                       ELSE Len(v.e[i].k) + 3 + JsonLength(v.e[i].v) + sum(i + 1)
         IN  2 + sum(1) + Max({0, Len(v.e) - 1})
    [] OTHER -> 4

\* fs resolves a relative path against the working directory of the process.
Resolve(e, p) ==
  IF StartsWith(p, "/") THEN p
  ELSE IF p = "." THEN e.cwd
  ELSE IF StartsWith(p, "./") THEN e.cwd \o "/" \o SubSeq(p, 3, Len(p))
  ELSE e.cwd \o "/" \o p

existsSync(f, e, p) == Resolve(e, p) \in DOMAIN f

isDirectory(f, e, p) == existsSync(f, e, p) /\ f[Resolve(e, p)].kind = "dir"

isFile(f, P) == P \in DOMAIN f /\ f[P].kind = "file"

\* fs.readdir: the names of the entries of a directory, without the directory.
ReaddirNames(f, P) ==
  SetToSeq({PathBasename(q) : q \in {x \in DOMAIN f : x # P /\ PathDirname(x) = P}})

\* util dirFiles: rejects when fs.readdir reports an error.
dirFiles(f, e, p, fault) ==
  IF ~fault /\ isDirectory(f, e, p)
  THEN [ok |-> TRUE, files |-> ReaddirNames(f, Resolve(e, p))]
  ELSE [ok |-> FALSE, files |-> <<>>]

\* fs.mkdir(path, {recursive: true})
RECURSIVE MkdirP(_, _)
MkdirP(f, P) ==
  IF P \in DOMAIN f \/ P \in {"/", "//", "."} THEN f
  ELSE MkdirP(f, PathDirname(P)) @@ (P :> DirNode)

RECURSIVE MkdirPossible(_, _)
MkdirPossible(f, P) ==
  IF P \in {"/", "//", "."} THEN TRUE
  ELSE IF P \in DOMAIN f THEN f[P].kind = "dir"
  ELSE MkdirPossible(f, PathDirname(P))

\* util createDir
createDir(f, e, p, fault) ==
  IF ~fault /\ MkdirPossible(f, Resolve(e, p))
  THEN [ok |-> TRUE, fs |-> MkdirP(f, Resolve(e, p))]
  ELSE [ok |-> FALSE, fs |-> f]

\* f with the file P holding content v.
WithFile(f, P, v) == [q \in DOMAIN f \cup {P} |-> IF q = P THEN FileNode(v) ELSE f[q]]

\* util writeFile, first step of fs.writeFile: the file is opened with flag
\* 'w', which creates it or truncates it.
writeFileOpen(f, e, p, fault) ==
  LET P == Resolve(e, p)
  IN  IF /\ ~fault
         /\ PathDirname(P) \in DOMAIN f /\ f[PathDirname(P)].kind = "dir"
         /\ (P \in DOMAIN f => f[P].kind = "file")
      THEN [ok |-> TRUE, fs |-> WithFile(f, P, Truncated)]
      ELSE [ok |-> FALSE, fs |-> f]

\* util writeFile, second step of fs.writeFile: the text is written from the
\* start of the opened file.  What another writer has put there since the
\* file was opened stays beyond the end of the text.  When the write fails
\* the file stays as it is, opened and empty, and writeFile rejects.
writeFileData(f, e, p, data, fault) ==
  LET P == Resolve(e, p)
  IN  IF fault THEN [ok |-> FALSE, fs |-> f]
      ELSE [ok |-> TRUE,
            fs |-> WithFile(f, P, IF JsonLength(f[P].content) > JsonLength(data)
                                  THEN RawText(JsonLength(f[P].content))
                                  ELSE data)]

EndsWith(s, suf) ==
  Len(s) >= Len(suf) /\ SubSeq(s, Len(s) - Len(suf) + 1, Len(s)) = suf

\* The file names require tries for a specifier, in order: an absolute path
\* as it is, './x' against the directory of the requiring module, a bare
\* name against the module search directories; each as it is and with the
\* extensions .js, .json and .node.
RequireCandidates(e, spec) ==
  LET both(x) == <<x, x \o ".js", x \o ".json", x \o ".node">>
      RECURSIVE bare(_)
      bare(i) == IF i > Len(e.modulePaths) THEN <<>>
                 ELSE both(e.modulePaths[i] \o "/" \o spec) \o bare(i + 1)
  IN  IF StartsWith(spec, "/") THEN both(spec)
      ELSE IF StartsWith(spec, "./") THEN both(e.moduleDir \o "/" \o SubSeq(spec, 3, Len(spec)))
      ELSE bare(1)

\* The first candidate that is a file, or that was loaded before; "" when
\* there is none.
RequireResolve(f, c, cand) ==
  LET hit == {i \in 1..Len(cand) : isFile(f, cand[i]) \/ cand[i] \in DOMAIN c}
  IN  IF hit = {} THEN "" ELSE cand[Min(hit)]

\* Loading the file found: from the module cache when it was loaded before;
\* else a .json file is parsed, which throws when its text is not JSON, a
\* .node file is not a loadable addon, and any other file is run as
\* JavaScript: the empty text and the text '{}' (an empty block) leave
\* module.exports as it is, {}, and the text of any other JSON object is a
\* syntax error.  A module that throws is not kept in the cache.
RequireLoad(f, c, file) ==
  IF file = "" THEN [ok |-> FALSE, value |-> Undefined, file |-> file, cache |-> c]
  ELSE IF file \in DOMAIN c THEN [ok |-> TRUE, value |-> c[file], file |-> file, cache |-> c]
  ELSE IF EndsWith(file, ".json")
  THEN IF f[file].content.t = "raw"
       THEN [ok |-> FALSE, value |-> Undefined, file |-> file, cache |-> c]
       ELSE [ok |-> TRUE, value |-> f[file].content, file |-> file,
             cache |-> c @@ (file :> f[file].content)]
  ELSE IF ~EndsWith(file, ".node") /\ f[file].content \in {EmptyObj, Truncated}
  THEN [ok |-> TRUE, value |-> EmptyObj, file |-> file, cache |-> c @@ (file :> EmptyObj)]
  ELSE [ok |-> FALSE, value |-> Undefined, file |-> file, cache |-> c]

\* require(spec)
require(f, c, e, spec) == RequireLoad(f, c, RequireResolve(f, c, RequireCandidates(e, spec)))

(***************************************************************************)
(* The run: promises, pending I/O and the continuations of the async       *)
(* functions.  The handlers below are functions of the record st of the    *)
(* mutable state; a handler runs to the point where every task it drives   *)
(* waits for I/O again, as one turn of the event loop does.                *)
(* A request to fs takes effect when the thread pool runs it, at some      *)
(* moment after it was issued; its callback is delivered at a later one.   *)
(***************************************************************************)
\* An I/O request that was issued and has not called back yet.  stage tells
\* how far the thread pool has come with it: "issued", "opened" (a writeFile
\* whose file is open and empty) or "done", and then ok and files hold what
\* the callback will be given.
Op(kind, r, bi, li, path, data, text) ==
  [kind |-> kind, r |-> r, bi |-> bi, li |-> li, path |-> path, data |-> data, text |-> text,
   stage |-> "issued", ok |-> FALSE, files |-> <<>>]

\* The thread pool has moved request op on.
Staged(st, op, stage, ok, files) ==
  [st EXCEPT !.ops = (@ \ {op}) \cup
                       {[op EXCEPT !.stage = stage, !.ok = ok, !.files = files]}]

LogEntry(level, msg, r, bi) == [level |-> level, msg |-> msg, r |-> r, bi |-> bi]

NewRef ==
  [pc |-> "new", isDir |-> FALSE, directories |-> <<>>, sub |-> <<>>, result |-> <<>>,
   referenceLanguage |-> "", baseFiles |-> <<>>, languages |-> <<>>, waiting |-> 0,
   why |-> ""]

\* [...new Set(q)]: the first occurrence of every element, in order.
RECURSIVE Dedup(_)
Dedup(q) ==
  IF q = <<>> THEN <<>>
  ELSE LET init == Dedup(SubSeq(q, 1, Len(q) - 1))
           last == q[Len(q)]
       IN  IF last \in Range(init) THEN init ELSE Append(init, last)

\* Promise.all of run(): rejected by the first reference that rejects,
\* resolved when every reference has resolved.
SettleRun(st) ==
  IF st.run # "pending" THEN st
  ELSE IF \E r \in DOMAIN st.refs : st.refs[r].pc = "rejected"
       THEN [st EXCEPT !.run = "rejected"]
  ELSE IF \A r \in DOMAIN st.refs : st.refs[r].pc = "resolved"
       THEN [st EXCEPT !.run = "resolved"]
  ELSE st

\* runReference rejects; why names the await that threw.
RejectRef(st, r, why) ==
  SettleRun([st EXCEPT !.refs[r].pc = "rejected", !.refs[r].why = why])

ResolveRef(st, r) == SettleRun([st EXCEPT !.refs[r].pc = "resolved"])

\* The path of the target of a language in acquireMissingTranslations.
TranslationPath(isDir, baseFile, x) ==
  IF isDir
  THEN PathDirname(PathDirname(baseFile.path)) \o "/" \o x \o "/" \o PathBasename(baseFile.path)
  ELSE PathDirname(baseFile.path) \o "/" \o x \o ".json"

\* The merge with its operands exchanged: a translated key replaces the
\* original one.
MergeContent_ResultsWin(results, original) == Spread(original, results)

\* { ...updates.results, ...original }
MergeContent(results, original) == Spread(results, original)

\* The reply that stands for "no answer yet" while the walk is looked ahead.
NoReply == [ok |-> FALSE, text |-> ""]

\* The record of a translation that has just been rejected.
NewTranslation(lang, pathh, rq) ==
  [lang |-> lang, path |-> pathh, readFile |-> rq.file, original |-> rq.value,
   gap |-> EmptyObj, updates |-> GTNull, status |-> "rejected"]

\* Lines 222-223 with the walk looked ahead: getTranslations waits for the
\* provider, or returns at once a result (the write is issued), null or an
\* error (updates.results throws).
TranslationWalked(st, key, t, walk) ==
  IF walk.calls # <<>>
  THEN [st EXCEPT !.tr = @ @@ (key :> [t EXCEPT !.status = "translating"]),
                  !.calls = Append(@, walk.calls[1]),
                  !.log = Append(@, LogEntry("info", "Translating", key[1], key[2])),
                  !.ops = @ \cup {Op("translate", key[1], key[2], key[3], "", EmptyObj,
                                     walk.calls[1].text)}]
  ELSE IF walk.kind = "value"
  THEN [st EXCEPT !.tr = @ @@ (key :> [t EXCEPT !.updates = walk, !.status = "writing"]),
                  !.ops = @ \cup {Op("write", key[1], key[2], key[3], t.path,
                                     MergeContent(walk.results, t.original), "")}]
  ELSE [st EXCEPT !.tr = @ @@ (key :> [t EXCEPT !.updates = walk])]

\* Line 222: the gap tree and the walk over it.
TranslationDiffed(cfg, st, key, t, gap) ==
  TranslationWalked(st, key, [t EXCEPT !.gap = gap], getTranslations(cfg, gap, t.lang, NoReply))

\* Line 221 done: require(pathh) threw, or gave the original content.
TranslationLoaded(cfg, st, key, t, base, rq) ==
  IF ~rq.ok THEN [st EXCEPT !.tr = @ @@ (key :> t)]
  ELSE TranslationDiffed(cfg, [st EXCEPT !.cache = rq.cache], key, t,
                         diffObjects(base, rq.value))

TranslationRequired(cfg, st, key, lang, pathh, base, rq) ==
  TranslationLoaded(cfg, st, key, NewTranslation(lang, pathh, rq), base, rq)

\* The arrow function of acquireMissingTranslations for one language, up to
\* its first wait: the provider call, or the write when no call is made.
StartTranslation(cfg, e, st, r, bi, li, lang, pathh, base) ==
  TranslationRequired(cfg, st, <<r, bi, li>>, lang, pathh, base,
                      require(st.fs, st.cache, e, pathh))

RECURSIVE TranslationsFrom(_, _, _, _, _, _, _)
TranslationsFrom(cfg, e, st, r, bi, li, base) ==
  IF li > Len(st.refs[r].languages) THEN st
  ELSE TranslationsFrom(cfg, e,
         StartTranslation(cfg, e, st, r, bi, li, st.refs[r].languages[li],
                          TranslationPath(st.refs[r].isDir, st.refs[r].baseFiles[bi],
                                          st.refs[r].languages[li]),
                          base),
         r, bi, li + 1, base)

FailedToAcquire(r, bi) == LogEntry("error", "Failed to acquire missing translations", r, bi)

\* Promise.all of lines 216-225 once every arrow function has run to its
\* first wait: a translation that is rejected already rejects it.  The catch
\* runs as a microtask, after the synchronous part of every base file (see
\* AcquireCaught).
AcquireStarted(st, r, bi, L, rejected) ==
  IF rejected # {}
  THEN [st EXCEPT !.acq = @ @@ (<<r, bi>> :> [done |-> TRUE, failed |-> TRUE,
                                              waiting |-> Cardinality(L \ rejected)])]
  ELSE [st EXCEPT !.acq = @ @@ (<<r, bi>> :> [done |-> L = {}, failed |-> FALSE,
                                              waiting |-> Cardinality(L)])]

AcquireTranslations(st, r, bi) ==
  AcquireStarted(st, r, bi, 1..Len(st.refs[r].languages),
                 {li \in 1..Len(st.refs[r].languages) : st.tr[<<r, bi, li>>].status = "rejected"})

\* Line 208 done: require(baseFile.path) threw (the catch logs at once, the
\* throw being synchronous), or gave base.
AcquireLoaded(cfg, e, st, r, bi, rq) ==
  IF ~rq.ok
  THEN [st EXCEPT !.acq = @ @@ (<<r, bi>> :> [done |-> TRUE, failed |-> TRUE, waiting |-> 0]),
                  !.log = Append(@, FailedToAcquire(r, bi))]
  ELSE AcquireTranslations(
         TranslationsFrom(cfg, e, [st EXCEPT !.cache = rq.cache], r, bi, 1, rq.value), r, bi)

\* acquireMissingTranslations for one base file, up to its first wait.
acquireMissingTranslations(cfg, e, st, r, bi) ==
  AcquireLoaded(cfg, e, st, r, bi,
                require(st.fs, st.cache, e, st.refs[r].baseFiles[bi].path))

\* runReference once every acquireMissingTranslations promise has settled.
CheckRef(st, r) ==
  IF /\ st.refs[r].pc = "acquire"
     /\ \A bi \in 1..Len(st.refs[r].baseFiles) : st.acq[<<r, bi>>].done
  THEN ResolveRef(st, r)
  ELSE st

RECURSIVE AcquireFrom(_, _, _, _, _)
AcquireFrom(cfg, e, st, r, bi) ==
  IF bi > Len(st.refs[r].baseFiles) THEN st
  ELSE AcquireFrom(cfg, e, acquireMissingTranslations(cfg, e, st, r, bi), r, bi + 1)

\* The number of awaits of nested getTranslations calls after which
\* getTranslations(obj) settles when it does not wait for the provider: none
\* when it returns from its own loop, one more than the nested call when the
\* first key holds no string (line 264).
RECURSIVE SettleTicks(_)
SettleTicks(obj) ==
  IF obj.t # "object" \/ Len(obj.e) = 0 THEN 0
  ELSE IF obj.e[1].v.t = "string" THEN 0
  ELSE SettleTicks(obj.e[1].v) + 1

\* The microtask turn in which the arrow function of a translation that is
\* rejected before any I/O rejects: at once when require(pathh) threw, else
\* one turn after getTranslations has settled (the await of line 222).
RejectTick(t) == IF t.original = Undefined THEN 0 ELSE SettleTicks(t.gap) + 1

\* The turn in which Promise.all of base file bi is first rejected.
CatchTick(st, r, bi) ==
  Min({RejectTick(st.tr[<<r, bi, li>>]) :
         li \in {l \in 1..Len(st.refs[r].languages) :
                   st.tr[<<r, bi, l>>].status = "rejected"}})

\* The catch blocks of the base files B log, the earliest rejection first;
\* rejections of one turn are served in the order of the base files.
RECURSIVE CatchFrom(_, _, _)
CatchFrom(st, r, B) ==
  IF B = {} THEN st
  ELSE LET bi == CHOOSE b \in B :
                   \A c \in B : \/ CatchTick(st, r, b) < CatchTick(st, r, c)
                                 \/ (CatchTick(st, r, b) = CatchTick(st, r, c) /\ b <= c)
       IN  CatchFrom([st EXCEPT !.log = Append(@, FailedToAcquire(r, bi))], r, B \ {bi})

\* The microtasks that follow the synchronous part of line 107: for every
\* base file of which a translation is rejected already, the catch of
\* acquireMissingTranslations logs.
AcquireCaught(st, r) ==
  CatchFrom(st, r,
    {bi \in 1..Len(st.refs[r].baseFiles) :
       \E li \in 1..Len(st.refs[r].languages) :
         <<r, bi, li>> \in DOMAIN st.tr /\ st.tr[<<r, bi, li>>].status = "rejected"})

\* runReference line 107
StartAcquire(cfg, e, st, r) ==
  CheckRef(
    AcquireCaught(
      AcquireFrom(cfg, e, [st EXCEPT !.refs[r].pc = "acquire", !.refs[r].waiting = 0], r, 1),
      r),
    r)

\* The file name built without the language.
FileToCheck_NoLanguage(reference, isDir, baseFile, language) ==
  IF isDir
  THEN PathDirname(reference.path) \o "/" \o PathBasename(baseFile.path)
  ELSE PathDirname(reference.path) \o "/" \o ".json"

\* The file createEmptyFiles looks for, for one base file and one language.
FileToCheck(reference, isDir, baseFile, language) ==
  IF isDir
  THEN PathDirname(reference.path) \o "/" \o language \o "/" \o PathBasename(baseFile.path)
  ELSE PathDirname(reference.path) \o "/" \o language \o ".json"

\* The writeFile requests of createEmptyFiles are in flight, or there was
\* nothing to create and runReference goes on to line 107.
FilesIssued(cfg, e, st, r, newOps) ==
  IF newOps = {} THEN StartAcquire(cfg, e, st, r)
  ELSE [st EXCEPT !.ops = @ \cup newOps,
                  !.refs[r].pc = "files",
                  !.refs[r].waiting = Cardinality(newOps)]

\* runReference line 106: createEmptyFiles for every base file.  It maps
\* over this.config.languages, so it throws when languages is not configured.
createEmptyFiles(cfg, e, st, r) ==
  IF Len(st.refs[r].baseFiles) > 0 /\ ~cfg.languages.present
  THEN RejectRef(st, r, "createEmptyFiles: languages undefined")
  ELSE FilesIssued(cfg, e, st, r,
         {Op("create", r, x[1], x[2],
             FileToCheck(cfg.reference[r], st.refs[r].isDir, st.refs[r].baseFiles[x[1]],
                         cfg.languages.list[x[2]]),
             EmptyObj, "")
            : x \in {y \in (1..Len(st.refs[r].baseFiles)) \X (1..Len(cfg.languages.list)) :
                       ~existsSync(st.fs, e,
                          FileToCheck(cfg.reference[r], st.refs[r].isDir,
                                      st.refs[r].baseFiles[y[1]], cfg.languages.list[y[2]]))}})

\* The folder createEmptyFolders looks for, for one language.
FolderToCheck(reference, language) == PathDirname(reference.path) \o "/" \o language

\* The createDir requests of createEmptyFolders are in flight.
FoldersIssued(st, r, newOps) ==
  [st EXCEPT !.ops = @ \cup newOps,
             !.refs[r].pc = "folders",
             !.refs[r].waiting = Cardinality(newOps)]

\* The folders createEmptyFolders has to create.
MissingFolders(cfg, e, st, r) ==
  {Op("mkdir", r, 0, li, FolderToCheck(cfg.reference[r], cfg.languages.list[li]), EmptyObj, "")
     : li \in {l \in 1..Len(cfg.languages.list) :
                 ~existsSync(st.fs, e, FolderToCheck(cfg.reference[r], cfg.languages.list[l]))}}

\* runReference lines 101-106, once the files of the reference are known:
\* createEmptyFolders in directory mode (it throws when languages is not
\* configured), then createEmptyFiles.
EnsureTargets(cfg, e, st, r) ==
  IF st.refs[r].isDir /\ ~cfg.languages.present
  THEN RejectRef(st, r, "createEmptyFolders: languages undefined")
  ELSE IF st.refs[r].isDir /\ MissingFolders(cfg, e, st, r) # {}
  THEN FoldersIssued(st, r, MissingFolders(cfg, e, st, r))
  ELSE createEmptyFiles(cfg, e, st, r)

\* runReference lines 99-100.
AfterResolve(cfg, e, st, r, files) ==
  EnsureTargets(cfg, e,
    [st EXCEPT !.refs[r].result = files.result,
               !.refs[r].referenceLanguage = files.referenceLanguage,
               !.refs[r].baseFiles =
                  SelectSeq(files.result, LAMBDA x : x.lang = files.referenceLanguage),
               !.refs[r].languages =
                  IF cfg.languages.present THEN cfg.languages.list
                  ELSE Dedup([i \in 1..Len(files.result) |-> files.result[i].lang])],
    r)

\* getJSONFiles lines 184-190, from the listing of the reference's directory.
getJSONFiles(reference, files) ==
  [result |-> [i \in 1..Len(files) |->
                 [lang |-> StrRemoveFirst(PathBasename(files[i]), ".json"), path |-> files[i]]],
   referenceLanguage |-> StrRemoveFirst(PathBasename(reference.path), ".json")]

\* .flat() of the per-directory lists.
RECURSIVE Flat(_)
Flat(qs) == IF qs = <<>> THEN <<>> ELSE Head(qs) \o Flat(Tail(qs))

\* getDirectoryFiles lines 160-168, from the listing of the parent directory
\* and the listing of each of its entries.
getDirectoryFiles(reference, directories, files) ==
  [result |-> Flat([index \in 1..Len(directories) |->
                      [j \in 1..Len(files[index]) |->
                         [lang |-> PathDirname(directories[index]), path |-> files[index][j]]]]),
   referenceLanguage |-> PathBasename(reference.path)]

\* getDirectoryFiles line 159: dirFiles for every entry of the parent.
SubListingsIssued(st, r, directories) ==
  [st EXCEPT !.refs[r].pc = "list2",
             !.refs[r].directories = directories,
             !.refs[r].sub = [i \in 1..Len(directories) |-> [done |-> FALSE, files |-> <<>>]],
             !.refs[r].waiting = Len(directories),
             !.ops = @ \cup {Op("readdir2", r, 0, i, directories[i], EmptyObj, "")
                               : i \in 1..Len(directories)}]

Listed(cfg, e, st, r, res) ==
  IF ~res.ok THEN RejectRef(st, r, "dirFiles")
  ELSE IF st.refs[r].isDir /\ Len(res.files) > 0 THEN SubListingsIssued(st, r, res.files)
  ELSE AfterResolve(cfg, e, st, r,
         IF st.refs[r].isDir THEN getDirectoryFiles(cfg.reference[r], <<>>, <<>>)
         ELSE getJSONFiles(cfg.reference[r], res.files))

\* fs.readdir of a dirFiles call runs in the thread pool: the listing is
\* what the directory holds at this moment.
RunReaddir(st, op, res) == Staged(st, op, "done", res.ok, res.files)

\* The callback of dirFiles(path.dirname(reference.path)).
OnReaddir(cfg, e, st, op) ==
  Listed(cfg, e, [st EXCEPT !.ops = @ \ {op}], op.r, [ok |-> op.ok, files |-> op.files])

SubListed(cfg, e, st, r, li, res) ==
  IF st.refs[r].pc # "list2" THEN st
  ELSE IF ~res.ok THEN RejectRef(st, r, "dirFiles")
  ELSE IF st.refs[r].waiting > 1
  THEN [st EXCEPT !.refs[r].sub[li] = [done |-> TRUE, files |-> res.files],
                  !.refs[r].waiting = @ - 1]
  ELSE AfterResolve(cfg, e,
         [st EXCEPT !.refs[r].sub[li] = [done |-> TRUE, files |-> res.files],
                    !.refs[r].waiting = @ - 1],
         r,
         getDirectoryFiles(cfg.reference[r], st.refs[r].directories,
            [i \in 1..Len(st.refs[r].sub) |->
               IF i = li THEN res.files ELSE st.refs[r].sub[i].files]))

\* The callback of one dirFiles(x) of getDirectoryFiles line 159.
OnReaddir2(cfg, e, st, op) ==
  SubListed(cfg, e, [st EXCEPT !.ops = @ \ {op}], op.r, op.li,
            [ok |-> op.ok, files |-> op.files])

FolderMade(cfg, e, st, r, ok) ==
  IF st.refs[r].pc # "folders" THEN st
  ELSE IF ~ok THEN RejectRef(st, r, "createDir")
  ELSE IF st.refs[r].waiting > 1 THEN [st EXCEPT !.refs[r].waiting = @ - 1]
  ELSE createEmptyFiles(cfg, e, [st EXCEPT !.refs[r].waiting = @ - 1], r)

\* fs.mkdir of a createDir call runs in the thread pool: the folder exists
\* from this moment on.
RunMkdir(st, op, res) == Staged([st EXCEPT !.fs = res.fs], op, "done", res.ok, <<>>)

\* The callback of one createDir of createEmptyFolders.
OnMkdir(cfg, e, st, op) ==
  FolderMade(cfg, e, [st EXCEPT !.ops = @ \ {op}], op.r, op.ok)

\* A write that took place.
Written(kind, op, file, original, results, content) ==
  [kind |-> kind, r |-> op.r, bi |-> op.bi, li |-> op.li, file |-> file,
   original |-> original, results |-> results, content |-> content]

FileCreated(cfg, e, st, r, ok) ==
  IF st.refs[r].pc # "files" THEN st
  ELSE IF ~ok THEN RejectRef(st, r, "writeFile")
  ELSE IF st.refs[r].waiting > 1 THEN [st EXCEPT !.refs[r].waiting = @ - 1]
  ELSE StartAcquire(cfg, e, [st EXCEPT !.refs[r].waiting = @ - 1], r)

\* fs.writeFile runs in the thread pool, first step: the file is created or
\* truncated, or the request fails.
RunOpen(st, op, res) ==
  Staged([st EXCEPT !.fs = res.fs], op, IF res.ok THEN "opened" ELSE "done", FALSE, <<>>)

\* fs.writeFile runs in the thread pool, second step: the text is in the
\* file, or the write has failed.
RunWrite(st, op, res) == Staged([st EXCEPT !.fs = res.fs], op, "done", res.ok, <<>>)

CreateReturned(cfg, e, st, op) ==
  FileCreated(cfg, e,
    [st EXCEPT !.hist = IF op.ok
                        THEN @ \cup {Written("create", op, Resolve(e, op.path),
                                             EmptyObj, EmptyObj, EmptyObj)}
                        ELSE @],
    op.r, op.ok)

\* The callback of one writeFile(fileToCheck, '{}') of createEmptyFiles.
OnCreate(cfg, e, st, op) ==
  CreateReturned(cfg, e, [st EXCEPT !.ops = @ \ {op}], op)

\* One translation of a base file settles: Promise.all of
\* acquireMissingTranslations rejects on the first rejection (the catch logs
\* and the call resolves) and resolves when all have resolved; what settles
\* after that is ignored.
SettleAcq(st, r, bi, ok) ==
  IF st.acq[<<r, bi>>].done THEN st
  ELSE IF ~ok
  THEN CheckRef([st EXCEPT !.acq[<<r, bi>>].done = TRUE,
                           !.acq[<<r, bi>>].failed = TRUE,
                           !.log = Append(@, FailedToAcquire(r, bi))], r)
  ELSE CheckRef([st EXCEPT !.acq[<<r, bi>>].waiting = @ - 1,
                           !.acq[<<r, bi>>].done = (st.acq[<<r, bi>>].waiting = 1)], r)

\* getTranslations has returned: line 223 issues the write, or
\* updates.results throws because updates is null, or the error is passed on.
Translated(st, op, key, updates) ==
  IF updates.kind = "value"
  THEN [st EXCEPT !.tr[key].updates = updates,
                  !.tr[key].status = "writing",
                  !.ops = @ \cup {Op("write", op.r, op.bi, op.li, st.tr[key].path,
                                     MergeContent(updates.results, st.tr[key].original), "")}]
  ELSE SettleAcq([st EXCEPT !.tr[key].updates = updates, !.tr[key].status = "rejected"],
                 op.r, op.bi, FALSE)

\* The provider answers the call of a translation.
OnTranslate(cfg, e, st, op, reply) ==
  Translated([st EXCEPT !.ops = @ \ {op}], op, <<op.r, op.bi, op.li>>,
             getTranslations(cfg, st.tr[<<op.r, op.bi, op.li>>].gap,
                             st.tr[<<op.r, op.bi, op.li>>].lang, reply))

WriteReturned(e, st, op, key) ==
  IF op.ok
  THEN SettleAcq([st EXCEPT !.tr[key].status = "written",
                            !.hist = @ \cup {Written("write", op, Resolve(e, op.path),
                                                     st.tr[key].original,
                                                     st.tr[key].updates.results, op.data)}],
                 op.r, op.bi, TRUE)
  ELSE SettleAcq([st EXCEPT !.tr[key].status = "rejected"], op.r, op.bi, FALSE)

\* The callback of writeFile(pathh, ...) of acquireMissingTranslations.
OnWrite(cfg, e, st, op) ==
  WriteReturned(e, [st EXCEPT !.ops = @ \ {op}], op, <<op.r, op.bi, op.li>>)

(***************************************************************************)
(* State                                                                   *)
(***************************************************************************)
VARIABLES
  config,   \* the TranslateServiceConfig given to the constructor
  env,      \* working directory, directory of the module, module search path
  fs0,      \* the file system when run() is called
  fs,       \* the file system: absolute path -> directory or file content
  cache,    \* require's module cache: file name -> parsed content
  run,      \* the promise of run(): "new", "pending", "resolved", "rejected"
  refs,     \* per reference: the state of its runReference call
  acq,      \* per (reference, base file): its acquireMissingTranslations call
  tr,       \* per (reference, base file, language): its translation
  ops,      \* the I/O requests in flight
  calls,    \* the calls of googleTranslate.translate, in order
  log,      \* the entries given to the Logger, in order
  hist,     \* the file writes that took place
  faults,   \* the number of I/O errors the environment has injected
  pure      \* a call of a function on its own: its arguments and its result

vars ==
  <<config, env, fs0, fs, cache, run, refs, acq, tr, ops, calls, log, hist, faults, pure>>

\* The mutable state as the record the handlers work on.
Cur ==
  [fs |-> fs, cache |-> cache, run |-> run, refs |-> refs, acq |-> acq, tr |-> tr,
   ops |-> ops, calls |-> calls, log |-> log, hist |-> hist]

Commit(st) ==
  /\ fs' = st.fs
  /\ cache' = st.cache
  /\ run' = st.run
  /\ refs' = st.refs
  /\ acq' = st.acq
  /\ tr' = st.tr
  /\ ops' = st.ops
  /\ calls' = st.calls
  /\ log' = st.log
  /\ hist' = st.hist
  /\ UNCHANGED <<config, env, fs0, pure>>

(***************************************************************************)
(* Bounds and the configurations explored                                  *)
(***************************************************************************)
\* The largest number of references in a configuration.
MaxRefs == 2

\* The largest number of I/O errors (readdir, mkdir, writeFile) in one run
\* beyond those the file system itself causes.
MaxFaults == 1

Hello == Obj(<<Ent("Title", Str("Hello"))>>)

BaseContents == {Hello}

TargetContents ==
  { EmptyObj,
    Hello,
    Obj(<<Ent("Title", Str("Bonjour")), Ent("Extra", Str("Hi"))>>),
    Obj(<<Ent("Long", Str("Hello")), Ent("Extra", Str("Hi"))>>),
    Obj(<<Ent("Nested", Obj(<<Ent("Sub", Str("Hi"))>>)), Ent("Title", Str("Bonjour"))>>),
    Obj(<<Ent("Title", EmptyObj)>>) }

DeContent == Obj(<<Ent("Extra", Str("Hi")), Ent("Long", Str("Hello"))>>)

\* /a holds en.json, fr.json and de.json (single-file layout); /d holds the
\* language folders en and fr (directory layout); /m is the directory of the
\* compiled module.
InitialFs(B, T) ==
  [q \in {"/a", "/a/en.json", "/a/fr.json", "/a/de.json",
          "/d", "/d/en", "/d/en/c.json", "/d/fr", "/d/fr/c.json", "/m"} |->
     CASE q \in {"/a", "/d", "/d/en", "/d/fr", "/m"} -> DirNode
       [] q \in {"/a/en.json", "/d/en/c.json"} -> FileNode(B)
       [] q \in {"/a/fr.json", "/d/fr/c.json"} -> FileNode(T)
       [] OTHER -> FileNode(DeContent)]

Envs ==
  { [cwd |-> "/a", moduleDir |-> "/a", modulePaths |-> <<"/a">>],
    [cwd |-> "/d", moduleDir |-> "/m", modulePaths |-> <<>>],
    [cwd |-> "/a", moduleDir |-> "/m", modulePaths |-> <<"/a">>] }

\* /x does not exist.
RefPaths == <<"/a/en.json", "/d/en", "/x/en.json">>

\* The reference lists of at most MaxRefs references, up to their order.
References ==
  LET idx == UNION {[1..n -> 1..Len(RefPaths)] : n \in 0..MaxRefs}
  IN  {[i \in DOMAIN q |-> [path |-> RefPaths[q[i]]]] :
         q \in {x \in idx : \A i \in DOMAIN x : i > 1 => x[i - 1] <= x[i]}}

LanguageChoices ==
  { [present |-> FALSE, list |-> <<>>],
    [present |-> TRUE, list |-> <<"fr">>],
    [present |-> TRUE, list |-> <<"fr", "de">>],
    [present |-> TRUE, list |-> <<"de", "it">>],
    [present |-> TRUE, list |-> <<"fr", "fr">>] }

MaxLengths == {2, 5}

Configs ==
  { [languages |-> l, maxLength |-> m, retranslate |-> rt, reference |-> rf] :
      l \in LanguageChoices, m \in MaxLengths, rt \in BOOLEAN, rf \in References }

\* What the provider may answer to a call.
Replies == {[ok |-> TRUE, text |-> "Bonjour"], [ok |-> FALSE, text |-> ""]}

\* The contents of the target /a/fr.json and /d/fr/c.json explored together
\* with more than one reference.
SharedTargetContents ==
  { EmptyObj,
    Obj(<<Ent("Title", Str("Bonjour")), Ent("Extra", Str("Hi"))>>) }

\* f with a second base file beside /a/en.json: the file /a/en, which holds
\* {} and has the language en as well.
SecondBase(f) == WithFile(f, "/a/en", EmptyObj)

FileSystems ==
  {InitialFs(B, T) : B \in BaseContents, T \in TargetContents}
    \cup {SecondBase(InitialFs(B, T)) : B \in BaseContents, T \in TargetContents}

\* The configurations, environments and file systems explored: all of them
\* for at most one reference; for more references, the requests of which
\* interleave, maxLength 2 without retranslate, the contents above and one
\* base file.
Scenarios ==
  {sc \in [config : Configs, env : Envs, fs0 : FileSystems] :
     Len(sc.config.reference) > 1 =>
       /\ sc.config.maxLength = 2
       /\ ~sc.config.retranslate
       /\ sc.fs0 \in {InitialFs(B, T) : B \in BaseContents, T \in SharedTargetContents}}

\* No function is called on its own.
PureIdle ==
  [phase |-> "idle", base |-> EmptyObj, target |-> EmptyObj, gap |-> EmptyObj,
   lang |-> "", walk |-> GTNull]

(***************************************************************************)
(* Init: a TranslateService was constructed, run() was not called yet      *)
(***************************************************************************)
Init ==
  /\ \E sc \in Scenarios : config = sc.config /\ env = sc.env /\ fs0 = sc.fs0
  /\ fs = fs0
  /\ cache = <<>>
  /\ run = "new"
  /\ refs = <<>>
  /\ acq = <<>>
  /\ tr = <<>>
  /\ ops = {}
  /\ calls = <<>>
  /\ log = <<>>
  /\ hist = {}
  /\ faults = 0
  /\ pure = PureIdle

(***************************************************************************)
(* Actions                                                                 *)
(***************************************************************************)
\* runReference lines 97-98 for reference r: the synchronous part, which
\* ends with the readdir of the directory of the reference path.
runReferenceStart(cfg, e, f, r) ==
  [NewRef EXCEPT !.pc = "list",
                 !.isDir = existsSync(f, e, cfg.reference[r].path)
                             /\ isDirectory(f, e, cfg.reference[r].path)]

\* run(): runReference is called for every reference; each call runs to its
\* first await.
Run ==
  /\ run = "new"
  /\ Commit([Cur EXCEPT
       !.refs = [r \in 1..Len(config.reference) |-> runReferenceStart(config, env, fs, r)],
       !.ops = {Op("readdir", r, 0, 0, PathDirname(config.reference[r].path), EmptyObj, "")
                  : r \in 1..Len(config.reference)},
       !.run = IF Len(config.reference) = 0 THEN "resolved" ELSE "pending"])
  /\ UNCHANGED faults

\* The environment lets an I/O request fail, at most MaxFaults times.
Fault(fault) ==
  /\ fault => faults < MaxFaults
  /\ faults' = IF fault THEN faults + 1 ELSE faults

\* The thread pool runs fs.readdir for a dirFiles request.
ReaddirWork ==
  \E op \in ops, fault \in BOOLEAN :
    /\ op.kind \in {"readdir", "readdir2"}
    /\ op.stage = "issued"
    /\ Fault(fault)
    /\ Commit(RunReaddir(Cur, op, dirFiles(fs, env, op.path, fault)))

\* The thread pool runs fs.mkdir for a createDir request.
MkdirWork ==
  \E op \in ops, fault \in BOOLEAN :
    /\ op.kind = "mkdir"
    /\ op.stage = "issued"
    /\ Fault(fault)
    /\ Commit(RunMkdir(Cur, op, createDir(fs, env, op.path, fault)))

\* The thread pool opens the file of a writeFile request.
WriteFileOpen ==
  \E op \in ops, fault \in BOOLEAN :
    /\ op.kind \in {"create", "write"}
    /\ op.stage = "issued"
    /\ Fault(fault)
    /\ Commit(RunOpen(Cur, op, writeFileOpen(fs, env, op.path, fault)))

\* The thread pool writes the text of a writeFile request.
WriteFileWrite ==
  \E op \in ops, fault \in BOOLEAN :
    /\ op.kind \in {"create", "write"}
    /\ op.stage = "opened"
    /\ Fault(fault)
    /\ Commit(RunWrite(Cur, op, writeFileData(fs, env, op.path, op.data, fault)))

ReaddirDone ==
  \E op \in ops :
    /\ op.kind = "readdir"
    /\ op.stage = "done"
    /\ Commit(OnReaddir(config, env, Cur, op))
    /\ UNCHANGED faults

Readdir2Done ==
  \E op \in ops :
    /\ op.kind = "readdir2"
    /\ op.stage = "done"
    /\ Commit(OnReaddir2(config, env, Cur, op))
    /\ UNCHANGED faults

MkdirDone ==
  \E op \in ops :
    /\ op.kind = "mkdir"
    /\ op.stage = "done"
    /\ Commit(OnMkdir(config, env, Cur, op))
    /\ UNCHANGED faults

CreateDone ==
  \E op \in ops :
    /\ op.kind = "create"
    /\ op.stage = "done"
    /\ Commit(OnCreate(config, env, Cur, op))
    /\ UNCHANGED faults

TranslateDone ==
  \E op \in ops, reply \in Replies :
    /\ op.kind = "translate"
    /\ Commit(OnTranslate(config, env, Cur, op, reply))
    /\ UNCHANGED faults

WriteDone ==
  \E op \in ops :
    /\ op.kind = "write"
    /\ op.stage = "done"
    /\ Commit(OnWrite(config, env, Cur, op))
    /\ UNCHANGED faults

Next ==
  \/ Run
  \/ ReaddirWork
  \/ MkdirWork
  \/ WriteFileOpen
  \/ WriteFileWrite
  \/ ReaddirDone
  \/ Readdir2Done
  \/ MkdirDone
  \/ CreateDone
  \/ TranslateDone
  \/ WriteDone

Spec == Init /\ [][Next]_vars

\* Every I/O request in flight is run and calls back eventually.
FairSpec == Spec /\ WF_vars(Next)

TypeOK == run \in {"new", "pending", "resolved", "rejected"}

(***************************************************************************)
(* Terms of the claims                                                     *)
(***************************************************************************)
\* run() has settled and no I/O request is in flight.
Quiescent == run \in {"resolved", "rejected"} /\ ops = {}

\* The provider rejected the call of translation k.
ProviderThrew(k) == tr[k].updates.kind = "throw" /\ tr[k].updates.calls # <<>>

\* Nothing failed: no I/O error was injected and the provider answered.
NoFailure == faults = 0 /\ \A k \in DOMAIN tr : ~ProviderThrew(k)

\* The working directory, the directory of the module and the module search
\* path all are the directory of reference r, so that the relative names the
\* code builds denote the files of the reference.
PathsAgree(r) ==
  LET d == PathDirname(config.reference[r].path)
  IN  env.cwd = d /\ env.moduleDir = d /\ d \in Range(env.modulePaths)

\* The (base file, target file, language) triples of reference r by the file
\* naming convention: {language}.json beside a base file, {language}/{name}
\* beside a base folder.
ExpectedPairs(r) ==
  LET p == config.reference[r].path
      L == Range(config.languages.list)
  IN  IF isFile(fs0, p)
      THEN {[base |-> p, target |-> PathDirname(p) \o "/" \o l \o ".json", lang |-> l] : l \in L}
      ELSE {[base |-> q, target |-> PathDirname(p) \o "/" \o l \o "/" \o PathBasename(q),
             lang |-> l] : q \in {x \in DOMAIN fs0 : isFile(fs0, x) /\ PathDirname(x) = p},
                           l \in L}

\* runReference r failed to list the files of its reference.
ResolutionFailed(r) == refs[r].pc = "rejected" /\ refs[r].why = "dirFiles"

\* runReference r has the files of its reference.
Resolved(r) == refs[r].pc \in {"folders", "files", "acquire", "resolved"}
                 \/ (refs[r].pc = "rejected" /\ refs[r].why # "dirFiles")

(***************************************************************************)
(* C1                                                                      *)
(***************************************************************************)
\* C1: once run() has finished without any failure, for every reference and
\* target language, every key K that the base file maps to a string of length
\* <= maxLength and that the target file does not contain was sent to the
\* provider as (base[K], language), and the target file maps K to an answer
\* of the provider.  (Stated where the paths the code builds denote the files
\* of the reference.)
C1_GapFilled ==
  (Quiescent /\ NoFailure) =>
    \A r \in DOMAIN refs : \A pr \in ExpectedPairs(r) :
      (PathsAgree(r) /\ isFile(fs0, pr.target)) =>
        \A i \in 1..Len(fs0[pr.base].content.e) :
          LET K == fs0[pr.base].content.e[i].k
              v == fs0[pr.base].content.e[i].v
          IN  (v.t = "string" /\ Len(v.s) <= config.maxLength
                 /\ ~HasKey(fs0[pr.target].content, K)) =>
                /\ \E j \in 1..Len(calls) : calls[j] = [text |-> v.s, lang |-> pr.lang]
                /\ \E rp \in Replies : rp.ok /\ Get(fs[pr.target].content, K) = Str(rp.text)

(***************************************************************************)
(* C2                                                                      *)
(***************************************************************************)
\* C2: whenever acquireMissingTranslations has written a target file, every
\* key of the content it loaded from that target has its original value in
\* the content written.
C2_NeverClobber ==
  \A w \in hist :
    w.kind = "write" =>
      \A i \in 1..Len(w.original.e) :
        Get(w.content, w.original.e[i].k) = w.original.e[i].v

\* A target was written for which the provider returned, for a key of the
\* original content, a string that differs from the original value.
C2_Witness ==
  \E w \in hist :
    /\ w.kind = "write"
    /\ \E i \in 1..Len(w.original.e) :
         /\ HasKey(w.results, w.original.e[i].k)
         /\ Get(w.results, w.original.e[i].k) # w.original.e[i].v
         /\ Get(w.results, w.original.e[i].k).t = "string"
         /\ Get(w.results, w.original.e[i].k).s # MISSING_TRANSLATION

(***************************************************************************)
(* C3                                                                      *)
(***************************************************************************)
\* C3: the promise returned by run() never rejects.
C3_RunNeverRejects == run # "rejected"

(***************************************************************************)
(* C4                                                                      *)
(***************************************************************************)
\* C4: when the run has come to rest and the resolution of one reference has
\* failed, every base/target pair of every other reference has been written
\* (nothing else failed, and the paths the code builds denote the files of
\* that other reference).
C4_OthersCompleted ==
  (Quiescent /\ NoFailure) =>
    \A r1 \in DOMAIN refs, r2 \in DOMAIN refs :
      (r1 # r2 /\ ResolutionFailed(r1) /\ ~ResolutionFailed(r2) /\ PathsAgree(r2)) =>
        \A pr \in ExpectedPairs(r2) :
          \E w \in hist : w.kind = "write" /\ w.r = r2 /\ w.file = pr.target

(***************************************************************************)
(* C5                                                                      *)
(***************************************************************************)
\* C5: when the run has come to rest and the provider call of one
\* translation threw, its target file holds what was loaded from it, and
\* every other translation that met no failure of its own has been written.
C5_ProviderFailureIsolated ==
  Quiescent =>
    \A k \in DOMAIN tr :
      ProviderThrew(k) =>
        /\ fs[tr[k].readFile].content = tr[k].original
        /\ faults = 0 =>
             \A k2 \in DOMAIN tr :
               (k2 # k /\ ~ProviderThrew(k2)) => tr[k2].status = "written"

(***************************************************************************)
(* C6                                                                      *)
(***************************************************************************)
\* C6: every text given to the provider has length <= maxLength, and once
\* getTranslations has returned its result for a gap tree, every string leaf
\* of the gap tree that is longer than maxLength is the missing-translation
\* marker in the result.
C6_LengthGuard ==
  /\ \A j \in 1..Len(calls) : Len(calls[j].text) <= config.maxLength
  /\ \A k \in DOMAIN tr :
       tr[k].updates.kind = "value" =>
         \A i \in 1..Len(tr[k].gap.e) :
           LET key == tr[k].gap.e[i].k
               item == tr[k].gap.e[i].v
           IN  (item.t = "string" /\ Len(item.s) > config.maxLength) =>
                 Get(tr[k].updates.results, key) = Str(MISSING_TRANSLATION)

(***************************************************************************)
(* C7                                                                      *)
(***************************************************************************)
\* The writeFile requests in flight.
WritesInFlight == {o \in ops : o.kind \in {"create", "write"}}

\* The task of a request or of a write that took place: one target language
\* of one base file of one reference.
TaskOf(x) == <<x.r, x.bi, x.li>>

\* Tasks a and b never have writes of one path in flight together, and
\* neither reads (by require) a target the other writes.
Disjoint(a, b) ==
  /\ \A o1 \in WritesInFlight, o2 \in WritesInFlight :
       (TaskOf(o1) = a /\ TaskOf(o2) = b) => Resolve(env, o1.path) # Resolve(env, o2.path)
  /\ (a \in DOMAIN tr /\ tr[a].readFile # "") =>
       /\ \A o \in WritesInFlight : TaskOf(o) = b => Resolve(env, o.path) # tr[a].readFile
       /\ \A w \in hist : TaskOf(w) = b => w.file # tr[a].readFile

Tasks == DOMAIN tr \cup {TaskOf(o) : o \in WritesInFlight}

\* C7 as claimed: in every configuration and interleaving, no two tasks of
\* the run write the same path, and no task reads a target that another
\* task of the run writes.
C7_NoSharedPath ==
  \A a \in Tasks, b \in Tasks : a # b => Disjoint(a, b)

\* The configured languages are pairwise different.
DistinctLanguages ==
  \A i, j \in 1..Len(config.languages.list) :
    i # j => config.languages.list[i] # config.languages.list[j]

\* C7 as amended: the same for the tasks of one base file of one reference,
\* when the configured languages are pairwise different.
C7_NoSharedPathPerBaseFile ==
  DistinctLanguages =>
    \A a \in Tasks, b \in Tasks :
      (a # b /\ a[1] = b[1] /\ a[2] = b[2]) => Disjoint(a, b)

\* Two tasks of one base file have writes in flight at the same time.
C7_Witness ==
  \E o1 \in WritesInFlight, o2 \in WritesInFlight :
    /\ o1.r = o2.r /\ o1.bi = o2.bi /\ o1.li # o2.li
    /\ o1.kind = "write" /\ o2.kind = "write"

(***************************************************************************)
(* C8                                                                      *)
(***************************************************************************)
\* C8: without config.languages, a reference whose files were resolved is
\* processed with the languages discovered: runReference does not fail, and
\* once the run has come to rest every base file has a translation for every
\* discovered language.
C8_InferredLanguagesProcessed ==
  \A r \in DOMAIN refs :
    (~config.languages.present /\ Resolved(r) /\ faults = 0) =>
      /\ refs[r].languages = Dedup([i \in 1..Len(refs[r].result) |-> refs[r].result[i].lang])
      /\ refs[r].pc # "rejected"
      /\ Quiescent =>
           \A bi \in 1..Len(refs[r].baseFiles), li \in 1..Len(refs[r].languages) :
             <<r, bi, li>> \in DOMAIN tr

(***************************************************************************)
(* C9                                                                      *)
(***************************************************************************)
\* C9: in directory mode, once the files of a reference are resolved, there
\* is one descriptor per file of every language folder, each carries the
\* name of the folder that holds the file as its language, the reference
\* language is the name of the base folder, and the base files are exactly
\* the files of the base folder.
C9_DirectoryResolution ==
  \A r \in DOMAIN refs :
    (refs[r].isDir /\ Resolved(r) /\ faults = 0) =>
      LET p == config.reference[r].path
          parent == PathDirname(p)
          onDisk == {q \in DOMAIN fs0 : isFile(fs0, q) /\ PathDirname(PathDirname(q)) = parent}
      IN  /\ Len(refs[r].result) = Cardinality(onDisk)
          /\ \A i \in 1..Len(refs[r].result) :
               isFile(fs0, parent \o "/" \o refs[r].result[i].lang \o "/"
                             \o PathBasename(refs[r].result[i].path))
          /\ refs[r].referenceLanguage = PathBasename(p)
          /\ {PathBasename(refs[r].baseFiles[i].path) : i \in 1..Len(refs[r].baseFiles)}
               = {PathBasename(q) : q \in {x \in onDisk : PathDirname(x) = p}}

(***************************************************************************)
(* diffObjects on its own, over all small trees                            *)
(***************************************************************************)
\* The largest number of entries, nested ones included, of a tree.
MaxSize == 2

TreeKeys == {"a", "b"}

TreeLeaves == {Str(""), Str("x"), Str("xxx")}

\* The objects with exactly n entries (nested ones included) over TreeKeys,
\* and the values an entry of such an object may hold.
RECURSIVE ObjsOfSize(_), ValsOfSize(_)
ObjsOfSize(n) ==
  IF n = 0 THEN {EmptyObj}
  ELSE {Obj(<<Ent(k, v)>>) : k \in TreeKeys, v \in ValsOfSize(n - 1)}
       \cup UNION {{Obj(<<Ent(k[1], v1), Ent(k[2], v2)>>) :
                      k \in {x \in TreeKeys \X TreeKeys : x[1] # x[2]},
                      v1 \in ValsOfSize(m), v2 \in ValsOfSize(n - 2 - m)}
                   : m \in 0..(n - 2)}

ValsOfSize(n) == (IF n = 0 THEN TreeLeaves ELSE {}) \cup ObjsOfSize(n)

Trees == UNION {ObjsOfSize(n) : n \in 0..MaxSize}

PureInit ==
  /\ config \in {c \in Configs : c.reference = <<>> /\ ~c.languages.present}
  /\ env \in {e \in Envs : e.cwd = "/d"}
  /\ fs0 = <<>>
  /\ fs = fs0
  /\ cache = <<>>
  /\ run = "new"
  /\ refs = <<>>
  /\ acq = <<>>
  /\ tr = <<>>
  /\ ops = {}
  /\ calls = <<>>
  /\ log = <<>>
  /\ hist = {}
  /\ faults = 0
  /\ pure \in {[PureIdle EXCEPT !.phase = "input", !.base = b, !.target = t] :
                 b \in Trees, t \in Trees}

\* diffObjects(base, target) is called.
PDiff ==
  /\ pure.phase = "input"
  /\ pure' = [pure EXCEPT !.phase = "diffed", !.gap = diffObjects(pure.base, pure.target)]
  /\ UNCHANGED <<config, env, fs0, fs, cache, run, refs, acq, tr, ops, calls, log, hist, faults>>

\* getTranslations has run up to its first wait: it awaits the provider, or
\* it has returned.
PWalked(p, lang, walk) ==
  IF walk.calls # <<>>
  THEN [p EXCEPT !.phase = "calling", !.lang = lang, !.walk = GTAwaiting(walk.calls)]
  ELSE [p EXCEPT !.phase = "walked", !.lang = lang, !.walk = walk]

\* Lines 255-256 of the walk: log.info and the call of the provider.
PCalled(q, walk) ==
  IF walk.calls # <<>> THEN Append(q, LogEntry("info", "Translating", 0, 0)) ELSE q

\* Line 222: getTranslations is called with the gap tree and a language.
PWalk ==
  \E lang \in {"fr"} :
    /\ pure.phase = "diffed"
    /\ pure' = PWalked(pure, lang, getTranslations(config, pure.gap, lang, NoReply))
    /\ log' = PCalled(log, getTranslations(config, pure.gap, lang, NoReply))
    /\ calls' = calls \o getTranslations(config, pure.gap, lang, NoReply).calls
    /\ UNCHANGED <<config, env, fs0, fs, cache, run, refs, acq, tr, ops, hist, faults>>

\* The provider answers the call, in a later turn of the event loop, and
\* getTranslations returns.
PAnswer ==
  \E reply \in Replies :
    /\ pure.phase = "calling"
    /\ pure' = [pure EXCEPT !.phase = "walked",
                            !.walk = getTranslations(config, pure.gap, pure.lang, reply)]
    /\ UNCHANGED <<config, env, fs0, fs, cache, run, refs, acq, tr, ops, calls, log, hist, faults>>

PureNext ==
  \/ PDiff
  \/ PWalk
  \/ PAnswer

PureSpec == PureInit /\ [][PureNext]_vars

(***************************************************************************)
(* C10                                                                     *)
(***************************************************************************)
\* C10: diffObjects(base, target) has no key at which the value of target
\* deep-equals the value of base.
C10_NoEqualKey ==
  pure.phase \in {"diffed", "calling", "walked"} =>
    \A i \in 1..Len(pure.gap.e) :
      ~IsEqual(Get(pure.target, pure.gap.e[i].k), Get(pure.base, pure.gap.e[i].k))

\* A diff was taken of a target that has a key whose value deep-equals the
\* falsy value of base at that key, beside a key that is a gap.
C10_Witness ==
  /\ pure.phase = "diffed"
  /\ pure.gap # EmptyObj
  /\ \E i \in 1..Len(pure.target.e) :
       /\ Falsy(Get(pure.base, pure.target.e[i].k))
       /\ IsEqual(pure.target.e[i].v, Get(pure.base, pure.target.e[i].k))

(***************************************************************************)
(* C11                                                                     *)
(***************************************************************************)
\* C11: diffObjects(base, base) is the empty tree, for every tree base.
C11_NoSelfDiff ==
  (pure.phase \in {"diffed", "calling", "walked"} /\ pure.target = pure.base) =>
    pure.gap = EmptyObj

\* A tree that holds a nested object and an empty string leaf (at the top or
\* inside the nested object) was diffed against itself.
C11_Witness ==
  /\ pure.phase = "diffed"
  /\ pure.target = pure.base
  /\ \E i \in 1..Len(pure.base.e) :
       /\ pure.base.e[i].v.t = "object"
       /\ \/ \E j \in 1..Len(pure.base.e) : pure.base.e[j].v = Str("")
          \/ \E j \in 1..Len(pure.base.e[i].v.e) : pure.base.e[i].v.e[j].v = Str("")

(***************************************************************************)
(* C12                                                                     *)
(***************************************************************************)
\* C12: when getTranslations returns a result for a gap tree, the result has
\* an entry for every key of the gap tree, and every string leaf of the gap
\* tree of length <= maxLength was sent to the provider.
C12_EveryKeyProcessed ==
  (pure.phase = "walked" /\ pure.walk.kind = "value") =>
    \A i \in 1..Len(pure.gap.e) :
      LET key == pure.gap.e[i].k
          item == pure.gap.e[i].v
      IN  /\ HasKey(pure.walk.results, key)
          /\ (item.t = "string" /\ Len(item.s) <= config.maxLength) =>
               \E j \in 1..Len(pure.walk.calls) :
                 pure.walk.calls[j] = [text |-> item.s, lang |-> pure.lang]

(***************************************************************************)
(* C13                                                                     *)
(***************************************************************************)
\* C13: when getTranslations returns a result for a gap tree node, every
\* string leaf of the node that is longer than maxLength is the
\* missing-translation marker in the result, and the translated flag
\* returned equals config.retranslate.
C13_MarkerAndFlag ==
  (pure.phase = "walked" /\ pure.walk.kind = "value") =>
    \A i \in 1..Len(pure.gap.e) :
      (pure.gap.e[i].v.t = "string" /\ Len(pure.gap.e[i].v.s) > config.maxLength) =>
        /\ Get(pure.walk.results, pure.gap.e[i].k) = Str(MISSING_TRANSLATION)
        /\ pure.walk.translated = config.retranslate

(***************************************************************************)
(* C14                                                                     *)
(***************************************************************************)
\* C14 as claimed: the translated flag that getTranslations returns is true
\* if and only if a leaf below the node was sent to the provider.
C14_FlagIffSent ==
  (pure.phase = "walked" /\ pure.walk.kind = "value") =>
    (pure.walk.translated <=> pure.walk.calls # <<>>)

\* C14 as amended: the flag is true if and only if a leaf below the node was
\* sent to the provider, or no leaf was sent (the walk ended at a leaf longer
\* than maxLength, which the marker stands for) and config.retranslate is set.
C14_FlagIffSentOrRetranslate ==
  (pure.phase = "walked" /\ pure.walk.kind = "value") =>
    (pure.walk.translated <=>
       (pure.walk.calls # <<>> \/ (pure.walk.calls = <<>> /\ config.retranslate)))

\* A node whose nested node holds a leaf longer than maxLength was walked
\* with retranslate set: the flag is true and nothing was sent.
C14_Witness ==
  /\ pure.phase = "walked"
  /\ pure.walk.kind = "value"
  /\ config.retranslate
  /\ pure.gap.e[1].v.t = "object"
  /\ pure.walk.calls = <<>>
  /\ pure.walk.translated

(***************************************************************************)
(* C15                                                                     *)
(***************************************************************************)
\* The error-level log entries about reference r and its base file bi (bi = 0:
\* about the reference itself).
ErrorEntries(r, bi) ==
  {j \in 1..Len(log) : log[j].level = "error" /\ log[j].r = r /\ log[j].bi = bi}

\* The translations of base file bi of reference r that failed.
FailedTranslations(r, bi) ==
  {k \in DOMAIN tr : k[1] = r /\ k[2] = bi /\ tr[k].status = "rejected"}

\* C15: when the run has come to rest, every reference whose runReference
\* failed (resolution, folder or file creation) has an error entry, and every
\* base file has one error entry per failure: one when the base file could
\* not be loaded, else one per target language whose translation failed.
C15_EveryFailureLogged ==
  Quiescent =>
    /\ \A r \in DOMAIN refs :
         refs[r].pc = "rejected" => ErrorEntries(r, 0) # {}
    /\ \A a \in DOMAIN acq :
         Cardinality(ErrorEntries(a[1], a[2])) =
           IF acq[a].failed /\ FailedTranslations(a[1], a[2]) = {} THEN 1
           ELSE Cardinality(FailedTranslations(a[1], a[2]))

(***************************************************************************)
(* C16                                                                     *)
(***************************************************************************)
\* C16: in every interleaving, when acquireMissingTranslations loads the
\* target file of a language, the file exists: require finds it.
C16_TargetExistsWhenLoaded ==
  \A k \in DOMAIN tr : tr[k].readFile # ""

(***************************************************************************)
(* C17                                                                     *)
(***************************************************************************)
\* C17: for every gap tree that diffObjects yields, getTranslations never
\* returns null: it returns a result object or passes on the provider's error.
C17_NeverNull ==
  pure.phase = "walked" => pure.walk.kind # "null"

(***************************************************************************)
(* C18                                                                     *)
(***************************************************************************)
\* C18: for every write of acquireMissingTranslations, every key of the
\* translated results is a key of the gap tree, every key of the gap tree is
\* a key of the original content loaded from the target, and the content
\* written is the same mapping as that original content.
C18_WriteKeepsContent ==
  \A w \in hist :
    w.kind = "write" =>
      /\ Range(ObjectKeys(w.results)) \subseteq Range(ObjectKeys(tr[TaskOf(w)].gap))
      /\ Range(ObjectKeys(tr[TaskOf(w)].gap)) \subseteq Range(ObjectKeys(w.original))
      /\ IsEqual(w.content, w.original)

\* A target was written after the provider answered for one of its keys: the
\* content written is the original mapping, with its keys in another order.
C18_Witness ==
  \E w \in hist :
    /\ w.kind = "write"
    /\ \E i \in 1..Len(w.results.e) :
         \E rp \in Replies : rp.ok /\ w.results.e[i].v = Str(rp.text)
    /\ IsEqual(w.content, w.original)
    /\ w.content # w.original

(***************************************************************************)
(* C19                                                                     *)
(***************************************************************************)
\* The strings that are leaves of a tree, at any depth.
RECURSIVE StringLeaves(_)
StringLeaves(v) ==
  IF v.t = "string" THEN {v.s}
  ELSE IF v.t = "object" THEN UNION {StringLeaves(v.e[i].v) : i \in 1..Len(v.e)}
  ELSE {}

\* C19: every key of diffObjects(base, target) is a key of target whose base
\* value is falsy or absent, the gap value is the value of target at that
\* key, and every text sent to the provider is a string leaf of target.
C19_GapFromTarget ==
  pure.phase \in {"diffed", "calling", "walked"} =>
    /\ \A i \in 1..Len(pure.gap.e) :
         /\ HasKey(pure.target, pure.gap.e[i].k)
         /\ Falsy(Get(pure.base, pure.gap.e[i].k))
         /\ pure.gap.e[i].v = Get(pure.target, pure.gap.e[i].k)
    /\ \A j \in 1..Len(pure.walk.calls) :
         pure.walk.calls[j].text \in StringLeaves(pure.target)

\* A text was sent to the provider for a base that has a non-empty string
\* leaf and a target of which one key is no gap.
C19_Witness ==
  /\ pure.phase = "walked"
  /\ pure.walk.calls # <<>>
  /\ pure.gap # pure.target
  /\ \E i \in 1..Len(pure.base.e) :
       pure.base.e[i].v.t = "string" /\ ~Falsy(pure.base.e[i].v)

====
